---- MODULE Spec2Model ----
(***************************************************************************)
(* Model of LangChain/main.py: the LangGraph workflow of                   *)
(* EmailGenerationSystem.  One WorkflowState (EmailState) per run, threaded *)
(* through the nodes of the graph built by _build_graph; the two calls of  *)
(* the language model and the clock are the environment.                   *)
(***************************************************************************)
EXTENDS Integers, Sequences, FiniteSets, TLC

(* ------------------------------ bounds --------------------------------- *)
\* a run is explored up to this many executions of the email_generation node
MaxGenerations == 3
\* the clock takes the values [date, time] with date <= MaxDate, time <= MaxTime
MaxDate == 1
MaxTime == 1
\* additional direct invocations of update_web_page on a final state
MaxRepublish == 2

\* the runs (invocations of EmailGenerationSystem.run) that may be in flight
RUNS == {1, 2}
\* caller-supplied user_input values
Inputs == {"sonata, v2.1.3, ECU-2024", "avante, v1.0, ECU-7"}

VARIABLES
    pc,           \* pc[r]: node of the graph run r executes next
    state,        \* state[r]: the EmailState of run r
    file,         \* email_result.html: the chunks written to it, <<>> = no file
    now,          \* the wall clock read by datetime.now()
    response,     \* response[r]: result of run r's latest self.llm.invoke
    decision,     \* decision[r]: latest return value of should_send_email
    trace,        \* trace[r]: the nodes run r has executed, in order
    evalHistory,  \* evalHistory[r]: per completed evaluation, was it 100/APPROVE
    republished,  \* number of direct re-invocations of update_web_page
    lastWriter    \* the run that wrote email_result.html last, 0 = none

vars == <<pc, state, file, now, response, decision, trace, evalHistory,
          republished, lastWriter>>

(* --------------------------- data and helpers -------------------------- *)
\* dict.get(k, default)
Get(d, k, default) == IF k \in DOMAIN d THEN d[k] ELSE default

\* the keys of a parsed JSON object ("type" tags the JSON kind of the value)
Keys(d) == DOMAIN d \ {"type"}

EmptyDict == [type |-> "dict"]

\* datetime.now().strftime("%Y-%m-%d")
StrfDate(t) == "D" \o ToString(t.date)
\* datetime.now().strftime("%Y-%m-%d %H:%M:%S")
StrfDateTime(t) == "D" \o ToString(t.date) \o " T" \o ToString(t.time)

Clock == [date : 0..MaxDate, time : 0..MaxTime]

Count(tr, node) == Cardinality({i \in DOMAIN tr : tr[i] = node})

\* class EmailState(TypedDict), as constructed by run()
InitialState(user_input) ==
    [user_input      |-> user_input,
     parsed_data     |-> EmptyDict,
     generated_email |-> "",
     accuracy_score  |-> EmptyDict,
     send_status     |-> "",
     result_summary  |-> "",
     processing_time |-> "",
     current_date    |-> ""]

\* before run() is called there is no state object
NoState == InitialState("")

(* ------------------------- the language model -------------------------- *)
\* self.llm.invoke either raises or returns a response with a content
LLMError == [ok |-> FALSE]
NoResponse == [ok |-> TRUE, content |-> [type |-> "none"]]

Drafts == {[type |-> "text", text |-> "draft A"],
           [type |-> "text", text |-> "draft B"]}

GenResponses == {LLMError} \cup {[ok |-> TRUE, content |-> c] : c \in Drafts}

PerfectFull ==
    [type |-> "dict", overall_score |-> 100, recommendation |-> "APPROVE",
     parsing_accuracy |-> 40, format_compliance |-> 30, required_info |-> 20,
     format_completeness |-> 10, feedback |-> "perfect"]

\* contents the model may return to the evaluation prompt
EvalContents ==
    { [type |-> "text", text |-> "Score: 100, APPROVE"],
      [type |-> "list"],
      EmptyDict,
      PerfectFull,
      [type |-> "dict", overall_score |-> 100, recommendation |-> "APPROVE"],
      [type |-> "dict", overall_score |-> 100, recommendation |-> "REVISE",
       feedback |-> "tone"],
      [type |-> "dict", overall_score |-> 80, recommendation |-> "APPROVE"],
      [type |-> "dict", overall_score |-> 80, recommendation |-> "REVISE",
       parsing_accuracy |-> 30, format_compliance |-> 25, required_info |-> 15,
       format_completeness |-> 10, feedback |-> "missing version"],
      [type |-> "dict", overall_score |-> 100],
      [type |-> "dict", recommendation |-> "APPROVE", feedback |-> "fine"],
      [type |-> "dict", overall_score |-> 150, recommendation |-> "MAYBE",
       parsing_accuracy |-> 50, format_compliance |-> 30, required_info |-> 20,
       format_completeness |-> 10] }

EvalResponses == {LLMError} \cup {[ok |-> TRUE, content |-> c] : c \in EvalContents}

\* json.loads(response.content): JSONDecodeError unless the text is JSON
json_loads(content) ==
    IF content.type \in {"dict", "list"}
    THEN [ok |-> TRUE, value |-> content]
    ELSE [ok |-> FALSE]

(* ------------------------------- Init ---------------------------------- *)
Init ==
    /\ pc = [r \in RUNS |-> "idle"]
    /\ state = [r \in RUNS |-> NoState]
    /\ file = <<>>
    /\ now = [date |-> 0, time |-> 0]
    /\ response = [r \in RUNS |-> NoResponse]
    /\ decision = [r \in RUNS |-> ""]
    /\ trace = [r \in RUNS |-> <<>>]
    /\ evalHistory = [r \in RUNS |-> <<>>]
    /\ republished = 0
    /\ lastWriter = 0

(* ------------------------------ actions -------------------------------- *)
\* time passes
Tick ==
    /\ \/ now.time < MaxTime /\ now' = [now EXCEPT !.time = @ + 1]
       \/ now.date < MaxDate /\ now' = [date |-> now.date + 1, time |-> 0]
    /\ UNCHANGED <<pc, state, file, lastWriter, response, decision, trace, evalHistory, republished>>

\* run(user_input): build the initial state and enter the graph
run(r, user_input) ==
    /\ pc[r] = "idle"
    /\ state' = [state EXCEPT ![r] = InitialState(user_input)]
    /\ pc' = [pc EXCEPT ![r] = "input_processing"]
    /\ UNCHANGED <<file, lastWriter, now, response, decision, trace, evalHistory, republished>>

\* the fixed sample record of process_input (values transliterated to ASCII)
ParsedData ==
    [type |-> "dict",
     vehicle_model |-> "extracted-model", software_version |-> "extracted-version",
     control_board |-> "extracted-board", manager_name |-> "Kim Test",
     distributor_name |-> "Park Deploy", test_result |-> "All Pass"]

\* the marker simulate_email_send stores (transliterated to ASCII)
SentMarker == "send complete (simulation)"

\* the evaluation substituted when json.loads raises JSONDecodeError
Fallback ==
    [type |-> "dict", overall_score |-> 0, recommendation |-> "REVISE",
     feedback |-> "response parse failed"]

(* ------------------- the stage functions, on one state ------------------ *)
\* mutant of process_input: the vehicle model is taken from the input
process_input_parses(s, t) ==
    [s EXCEPT !.parsed_data = [ParsedData EXCEPT !.vehicle_model = s.user_input],
              !.current_date = StrfDate(t),
              !.processing_time = StrfDateTime(t)]

\* mutant of process_input: the stage marks the send as pending
process_input_pending(s, t) ==
    [s EXCEPT !.parsed_data = ParsedData,
              !.current_date = StrfDate(t),
              !.processing_time = StrfDateTime(t),
              !.send_status = "pending"]

process_input(s, t) ==
    [s EXCEPT !.parsed_data = ParsedData,
              !.current_date = StrfDate(t),
              !.processing_time = StrfDateTime(t)]

\* self.llm.invoke raising inside generate_email propagates
generate_email_raises(resp) == ~resp.ok

generate_email(s, resp) == [s EXCEPT !.generated_email = resp.content.text]

\* what check_accuracy stores in state["accuracy_score"]
check_accuracy(s, resp) ==
    IF ~resp.ok THEN s
    ELSE LET parsed == json_loads(resp.content)
         IN  IF parsed.ok
             THEN [s EXCEPT !.accuracy_score = parsed.value]
             ELSE [s EXCEPT !.accuracy_score = Fallback]

\* mutant of check_accuracy_raises: no except clause, JSONDecodeError propagates
check_accuracy_raises_uncaught(resp) ==
    \/ ~resp.ok
    \/ LET parsed == json_loads(resp.content)
       IN  \/ ~parsed.ok
           \/ parsed.value.type # "dict"
           \/ "overall_score" \notin DOMAIN parsed.value

\* check_accuracy raises when the model call raises, and when the logging line
\* accuracy_data['overall_score'] raises TypeError or KeyError: only
\* json.JSONDecodeError is caught
check_accuracy_raises(resp) ==
    \/ ~resp.ok
    \/ LET parsed == json_loads(resp.content)
       IN  /\ parsed.ok
           /\ \/ parsed.value.type # "dict"
              \/ "overall_score" \notin DOMAIN parsed.value

\* mutant of should_send_email: the recommendation is not consulted
should_send_email_score_only(s) ==
    LET score == Get(s.accuracy_score, "overall_score", 0)
    IN  IF score = 100 THEN "send" ELSE "revise"

\* mutants of should_send_email: "or" for "and"; a pass mark instead of 100
should_send_email_or(s) ==
    LET score == Get(s.accuracy_score, "overall_score", 0)
        recommendation == Get(s.accuracy_score, "recommendation", "REVISE")
    IN  IF score = 100 \/ recommendation = "APPROVE" THEN "send" ELSE "revise"

should_send_email_threshold(s) ==
    LET score == Get(s.accuracy_score, "overall_score", 0)
        recommendation == Get(s.accuracy_score, "recommendation", "REVISE")
    IN  IF score >= 80 /\ recommendation = "APPROVE" THEN "send" ELSE "revise"

should_send_email(s) ==
    LET score == Get(s.accuracy_score, "overall_score", 0)
        recommendation == Get(s.accuracy_score, "recommendation", "REVISE")
    IN  IF score = 100 /\ recommendation = "APPROVE" THEN "send" ELSE "revise"

\* mutant of revise_email: the revision discards the rejected draft
revise_email_drops_draft(s) == [s EXCEPT !.generated_email = ""]

\* mutant of revise_email: the revision restarts the run's timestamp
revise_email_clears(s) == [s EXCEPT !.processing_time = ""]

revise_email(s) == s

\* mutant of simulate_email_send: the draft is stamped when it is sent
simulate_email_send_signs(s) ==
    [s EXCEPT !.send_status = SentMarker,
              !.generated_email = @ \o " (sent)"]

simulate_email_send(s) == [s EXCEPT !.send_status = SentMarker]

\* f-string formatting of accuracy_score.get(k, default)
FmtGet(d, k, default) == IF k \in DOMAIN d THEN ToString(d[k]) ELSE default

\* state['accuracy_score']['overall_score'] raises KeyError when absent
score_lookup_raises(s) == "overall_score" \notin DOMAIN s.accuracy_score

QualityText(s) ==
    "|pa=" \o FmtGet(s.accuracy_score, "parsing_accuracy", "N/A") \o "/40"
    \o "|fc=" \o FmtGet(s.accuracy_score, "format_compliance", "N/A") \o "/30"
    \o "|ri=" \o FmtGet(s.accuracy_score, "required_info", "N/A") \o "/20"
    \o "|fq=" \o FmtGet(s.accuracy_score, "format_completeness", "N/A") \o "/10"
    \o "|fb=" \o Get(s.accuracy_score, "feedback", "none")

output_result(s) ==
    [s EXCEPT !.result_summary =
        "status=" \o s.send_status
        \o "|score=" \o ToString(s.accuracy_score.overall_score) \o "/100"
        \o "|time=" \o s.processing_time
        \o "|input=" \o s.user_input
        \o "|parsed=" \o ToString(Keys(s.parsed_data))
        \o QualityText(s)]

\* the HTML text rendered by update_web_page: everything up to the
\* "last update" slot, and the value of that slot
html_content(s, t) ==
    [body |-> "time=" \o s.processing_time
              \o "|status=" \o s.send_status
              \o "|score=" \o ToString(s.accuracy_score.overall_score) \o "/100"
              \o "|input=" \o s.user_input
              \o "|model=" \o s.parsed_data.vehicle_model
              \o "|version=" \o s.parsed_data.software_version
              \o "|board=" \o s.parsed_data.control_board
              \o "|email=" \o s.generated_email
              \o QualityText(s),
     last_update |-> StrfDateTime(t)]

\* mutants of write_file: mode "a" appends; mode "x" keeps an existing file
write_file_append(f, content) == Append(f, content)

write_file_keep(f, content) == IF f = <<>> THEN <<content>> ELSE f

\* with open("email_result.html", "w") as f: f.write(content)
write_file(f, content) == <<content>>

update_web_page(s) == s

\* mutant of Edge: result_output wired back to email_generation
Edge_summary_regenerates(node) ==
    CASE node = "input_processing" -> "email_generation"
      [] node = "email_generation" -> "accuracy_check"
      [] node = "revision"         -> "email_generation"
      [] node = "email_simulation" -> "result_output"
      [] node = "result_output"    -> "email_generation"
      [] node = "web_update"       -> "END"

\* mutant of Edge: revision wired to accuracy_check, the draft is not rewritten
Edge_revision_reevaluates(node) ==
    CASE node = "input_processing" -> "email_generation"
      [] node = "email_generation" -> "accuracy_check"
      [] node = "revision"         -> "accuracy_check"
      [] node = "email_simulation" -> "result_output"
      [] node = "result_output"    -> "web_update"
      [] node = "web_update"       -> "END"

\* mutant of Edge: email_simulation wired to web_update, result_output skipped
Edge_skips_summary(node) ==
    CASE node = "input_processing" -> "email_generation"
      [] node = "email_generation" -> "accuracy_check"
      [] node = "revision"         -> "email_generation"
      [] node = "email_simulation" -> "web_update"
      [] node = "result_output"    -> "web_update"
      [] node = "web_update"       -> "END"

\* _build_graph: the static edges and the map of the conditional edge
Edge(node) ==
    CASE node = "input_processing" -> "email_generation"
      [] node = "email_generation" -> "accuracy_check"
      [] node = "revision"         -> "email_generation"
      [] node = "email_simulation" -> "result_output"
      [] node = "result_output"    -> "web_update"
      [] node = "web_update"       -> "END"

\* mutant of ConditionalEdge: the two targets of the conditional edge exchanged
ConditionalEdge_swapped(result) ==
    CASE result = "send"   -> "revision"
      [] result = "revise" -> "email_simulation"

ConditionalEdge(result) ==
    CASE result = "send"   -> "email_simulation"
      [] result = "revise" -> "revision"

\* an evaluation record that is overall_score 100 with recommendation APPROVE
IsPerfect(e) ==
    /\ "overall_score" \in DOMAIN e /\ e.overall_score = 100
    /\ "recommendation" \in DOMAIN e /\ e.recommendation = "APPROVE"

(* --------------------------- the node actions --------------------------- *)
input_processing(r) ==
    /\ pc[r] = "input_processing"
    /\ state' = [state EXCEPT ![r] = process_input(@, now)]
    /\ pc' = [pc EXCEPT ![r] = Edge("input_processing")]
    /\ trace' = [trace EXCEPT ![r] = Append(@, "input_processing")]
    /\ UNCHANGED <<file, lastWriter, now, response, decision, evalHistory, republished>>

\* mutant of email_generation: a failed model call is retried
email_generation_retry(r, resp) ==
    /\ pc[r] = "email_generation"
    /\ Count(trace[r], "email_generation") < MaxGenerations
    /\ response' = [response EXCEPT ![r] = resp]
    /\ IF generate_email_raises(resp)
       THEN UNCHANGED <<pc, state>>
       ELSE /\ state' = [state EXCEPT ![r] = generate_email(@, resp)]
            /\ pc' = [pc EXCEPT ![r] = Edge("email_generation")]
    /\ trace' = [trace EXCEPT ![r] = Append(@, "email_generation")]
    /\ UNCHANGED <<file, lastWriter, now, decision, evalHistory, republished>>

email_generation(r, resp) ==
    /\ pc[r] = "email_generation"
    /\ Count(trace[r], "email_generation") < MaxGenerations
    /\ response' = [response EXCEPT ![r] = resp]
    /\ IF generate_email_raises(resp)
       THEN /\ pc' = [pc EXCEPT ![r] = "aborted"]
            /\ UNCHANGED state
       ELSE /\ state' = [state EXCEPT ![r] = generate_email(@, resp)]
            /\ pc' = [pc EXCEPT ![r] = Edge("email_generation")]
    /\ trace' = [trace EXCEPT ![r] = Append(@, "email_generation")]
    /\ UNCHANGED <<file, lastWriter, now, decision, evalHistory, republished>>

accuracy_check(r, resp) ==
    /\ pc[r] = "accuracy_check"
    /\ response' = [response EXCEPT ![r] = resp]
    /\ state' = [state EXCEPT ![r] = check_accuracy(@, resp)]
    /\ IF check_accuracy_raises(resp)
       THEN /\ pc' = [pc EXCEPT ![r] = "aborted"]
            /\ UNCHANGED <<decision, evalHistory>>
       ELSE /\ decision' = [decision EXCEPT ![r] = should_send_email(state'[r])]
            /\ pc' = [pc EXCEPT ![r] = ConditionalEdge(decision'[r])]
            /\ evalHistory' = [evalHistory EXCEPT ![r] =
                                  Append(@, IsPerfect(state'[r].accuracy_score))]
    /\ trace' = [trace EXCEPT ![r] = Append(@, "accuracy_check")]
    /\ UNCHANGED <<file, lastWriter, now, republished>>

revision(r) ==
    /\ pc[r] = "revision"
    /\ state' = [state EXCEPT ![r] = revise_email(@)]
    /\ pc' = [pc EXCEPT ![r] = Edge("revision")]
    /\ trace' = [trace EXCEPT ![r] = Append(@, "revision")]
    /\ UNCHANGED <<file, lastWriter, now, response, decision, evalHistory, republished>>

email_simulation(r) ==
    /\ pc[r] = "email_simulation"
    /\ state' = [state EXCEPT ![r] = simulate_email_send(@)]
    /\ pc' = [pc EXCEPT ![r] = Edge("email_simulation")]
    /\ trace' = [trace EXCEPT ![r] = Append(@, "email_simulation")]
    /\ UNCHANGED <<file, lastWriter, now, response, decision, evalHistory, republished>>

result_output(r) ==
    /\ pc[r] = "result_output"
    /\ IF score_lookup_raises(state[r])
       THEN /\ pc' = [pc EXCEPT ![r] = "aborted"]
            /\ UNCHANGED state
       ELSE /\ state' = [state EXCEPT ![r] = output_result(@)]
            /\ pc' = [pc EXCEPT ![r] = Edge("result_output")]
    /\ trace' = [trace EXCEPT ![r] = Append(@, "result_output")]
    /\ UNCHANGED <<file, lastWriter, now, response, decision, evalHistory, republished>>

web_update(r) ==
    /\ pc[r] = "web_update"
    /\ IF score_lookup_raises(state[r])
       THEN /\ pc' = [pc EXCEPT ![r] = "aborted"]
            /\ UNCHANGED <<state, file, lastWriter>>
       ELSE /\ file' = write_file(file, html_content(state[r], now))
            /\ lastWriter' = r
            /\ state' = [state EXCEPT ![r] = update_web_page(@)]
            /\ pc' = [pc EXCEPT ![r] = Edge("web_update")]
    /\ trace' = [trace EXCEPT ![r] = Append(@, "web_update")]
    /\ UNCHANGED <<now, response, decision, evalHistory, republished>>

\* update_web_page invoked again, directly, on the final state of a run
Republish(r) ==
    /\ pc[r] = "END"
    /\ republished < MaxRepublish
    /\ file' = write_file(file, html_content(state[r], now))
    /\ lastWriter' = r
    /\ state' = [state EXCEPT ![r] = update_web_page(@)]
    /\ republished' = republished + 1
    /\ UNCHANGED <<pc, now, response, decision, trace, evalHistory>>

(* --------------------------- specifications ----------------------------- *)
\* one step of run r
Step(r) ==
    \/ \E u \in Inputs : run(r, u)
    \/ input_processing(r)
    \/ \E resp \in GenResponses : email_generation(r, resp)
    \/ \E resp \in EvalResponses : accuracy_check(r, resp)
    \/ revision(r)
    \/ email_simulation(r)
    \/ result_output(r)
    \/ web_update(r)

\* a single run (run 1), every response of the model, the clock
Next == Step(1) \/ Tick

Spec == Init /\ [][Next]_vars

\* the scheduler keeps a started run going
FairSpec == Spec /\ WF_vars(Step(1))

\* a finished run whose final state is published again, directly
PublishNext == Next \/ Republish(1)

PublishSpec == Init /\ [][PublishNext]_vars

\* two runs interleaved, each against a model that answers with a draft and
\* then with a perfect or a sub-perfect evaluation, or fails when evaluating
ConcGenResponses == {[ok |-> TRUE, content |-> [type |-> "text", text |-> "draft A"]]}

ConcEvalResponses ==
    {LLMError,
     [ok |-> TRUE, content |-> PerfectFull],
     [ok |-> TRUE, content |-> [type |-> "dict", overall_score |-> 80,
                                recommendation |-> "REVISE"]]}

\* the caller's input of each of the two runs
ConcInput(r) == IF r = 1 THEN "sonata, v2.1.3, ECU-2024" ELSE "avante, v1.0, ECU-7"

ConcStep(r) ==
    \/ run(r, ConcInput(r))
    \/ input_processing(r)
    \/ \E resp \in ConcGenResponses : email_generation(r, resp)
    \/ \E resp \in ConcEvalResponses : accuracy_check(r, resp)
    \/ revision(r)
    \/ email_simulation(r)
    \/ result_output(r)
    \/ web_update(r)

ConcNext == (\E r \in RUNS : ConcStep(r)) \/ Tick

ConcSpec == Init /\ [][ConcNext]_vars

(* ------------------------------ properties ------------------------------ *)
Range(seq) == {seq[i] : i \in DOMAIN seq}

LastOf(seq) == seq[Len(seq)]

\* run r took the step
Stepped(r) == pc'[r] # pc[r] \/ trace'[r] # trace[r]

\* C1: should_send_email returns "send" exactly for an evaluation record with
\* overall_score 100 and recommendation APPROVE, and "revise" for every other
\* record, whichever keys it has.
C1_RouterCorrectness ==
    \A r \in RUNS :
        (decision[r] # "" /\ pc[r] # "aborted") =>
            /\ decision[r] \in {"send", "revise"}
            /\ decision[r] = "send" <=> IsPerfect(state[r].accuracy_score)

C1_Witness ==
    /\ decision[1] = "revise"
    /\ pc[1] = "revision"
    /\ Get(state[1].accuracy_score, "overall_score", 0) = 100
    /\ Get(state[1].accuracy_score, "recommendation", "") = "REVISE"

\* C2: when the response to the evaluation prompt is not JSON, check_accuracy
\* does not raise, stores exactly {overall_score: 0, recommendation: REVISE,
\* feedback: non-empty}, and the router returns "revise".
C2_EvaluationFallback ==
    [][\A r \in RUNS :
        (/\ pc[r] = "accuracy_check"
         /\ Stepped(r)
         /\ response'[r].ok
         /\ response'[r].content.type = "text")
        => LET e == state'[r].accuracy_score
           IN  /\ pc'[r] = "revision"
               /\ decision'[r] = "revise"
               /\ Keys(e) = {"overall_score", "recommendation", "feedback"}
               /\ e.overall_score = 0
               /\ e.recommendation = "REVISE"
               /\ e.feedback # ""]_vars

C2_Witness ==
    /\ pc[1] = "revision"
    /\ response[1].ok
    /\ response[1].content.type = "text"
    /\ state[1].accuracy_score.overall_score = 0

\* an outcome of the evaluation call that is a failure of the evaluation stage
EvaluationFailure(resp) ==
    \/ ~resp.ok
    \/ resp.content.type # "dict"
    \/ "overall_score" \notin DOMAIN resp.content
    \/ "recommendation" \notin DOMAIN resp.content

\* C3: whatever the outcome of the evaluation call (unparseable, not a record,
\* a record lacking overall_score or recommendation, a failed model call), the
\* run does not abort in accuracy_check and the next stage is revision.
C3_EvaluationNeverAborts ==
    [][\A r \in RUNS :
        (/\ pc[r] = "accuracy_check"
         /\ Stepped(r)
         /\ EvaluationFailure(response'[r]))
        => pc'[r] = "revision"]_vars

FirstEvaluationPerfect(r) == Len(evalHistory[r]) >= 1 /\ evalHistory[r][1]

ConvergentPath ==
    <<"input_processing", "email_generation", "accuracy_check",
      "email_simulation", "result_output", "web_update">>

\* C4: when the first evaluation of a run is 100/APPROVE, generation and
\* evaluation run once, revision never, then email_simulation, result_output
\* and web_update run in that order, and the run reaches the end of the graph
\* with send_status the completion marker.
C4_TerminalConvergence ==
    /\ [](\A r \in RUNS :
            FirstEvaluationPerfect(r) =>
                /\ Count(trace[r], "email_generation") = 1
                /\ Count(trace[r], "accuracy_check") = 1
                /\ Count(trace[r], "revision") = 0
                /\ Len(trace[r]) <= Len(ConvergentPath)
                /\ trace[r] = SubSeq(ConvergentPath, 1, Len(trace[r]))
                /\ pc[r] \in {"email_simulation", "result_output", "web_update", "END"}
                /\ pc[r] = "END" => /\ trace[r] = ConvergentPath
                                    /\ state[r].send_status = SentMarker)
    /\ (FirstEvaluationPerfect(1) ~> pc[1] = "END")

C4_Witness ==
    /\ FirstEvaluationPerfect(1)
    /\ pc[1] = "END"
    /\ state[1].send_status = SentMarker

AllNonPerfect(r) == \A i \in DOMAIN evalHistory[r] : ~evalHistory[r][i]

C6_InputsImmutable ==
    [][\A r \in RUNS :
        /\ pc[r] # "idle" => state'[r].user_input = state[r].user_input
        /\ pc[r] \notin {"idle", "input_processing"} =>
              state'[r].processing_time = state[r].processing_time]_vars

C6_Witness ==
    /\ pc[1] = "END"
    /\ Count(trace[1], "revision") >= 2
    /\ state[1].user_input \in Inputs
    /\ state[1].processing_time # ""
    /\ state[1].processing_time # StrfDateTime(now)

\* C7: a failing model call in email_generation, on the first or a later
\* iteration, aborts the run there: no retry, no later stage, send_status is
\* never the marker and the run does not write the report file.
C7_GenerationFailureFatal ==
    [][\A r \in RUNS :
        /\ (pc[r] = "email_generation" /\ Stepped(r) /\ ~response'[r].ok) =>
              /\ pc'[r] = "aborted"
              /\ state'[r] = state[r]
              /\ state'[r].send_status = ""
              /\ file' = file
              /\ "web_update" \notin Range(trace'[r])
        /\ pc[r] = "aborted" =>
              /\ pc'[r] = "aborted"
              /\ state'[r] = state[r]
              /\ trace'[r] = trace[r]
              /\ lastWriter' # r]_vars

C7_Witness ==
    /\ pc[1] = "aborted"
    /\ LastOf(trace[1]) = "email_generation"
    /\ Count(trace[1], "revision") >= 1
    /\ state[1].send_status = ""
    /\ file = <<>>

\* C8: update_web_page invoked again on the final state of a run leaves the
\* state unchanged and replaces the file by one document that differs from the
\* previous one in the render timestamp only.
C8_IdempotentPublish ==
    [][republished' # republished =>
        /\ state' = state
        /\ Len(file) = 1
        /\ Len(file') = 1
        /\ file'[1].body = file[1].body
        /\ DOMAIN file'[1] = {"body", "last_update"}
        /\ DOMAIN file[1] = {"body", "last_update"}]_vars

C8_Witness ==
    /\ republished = MaxRepublish
    /\ Len(file) = 1
    /\ file[1].last_update # state[1].processing_time

AllFinished == \A r \in RUNS : pc[r] \in {"END", "aborted"}

SubScoreCaps ==
    [parsing_accuracy |-> 40, format_compliance |-> 30,
     required_info |-> 20, format_completeness |-> 10]

\* C10: after the first evaluation pass the evaluation in the state has an
\* overall_score in 0..100, a recommendation of APPROVE or REVISE, and
\* sub-scores within their caps.
C10_EvaluationShape ==
    \A r \in RUNS :
        Len(evalHistory[r]) >= 1 =>
            LET e == state[r].accuracy_score
            IN  /\ "overall_score" \in DOMAIN e
                /\ e.overall_score \in 0..100
                /\ "recommendation" \in DOMAIN e
                /\ e.recommendation \in {"APPROVE", "REVISE"}
                /\ \A k \in DOMAIN SubScoreCaps :
                      k \in DOMAIN e => e[k] <= SubScoreCaps[k]

TerminalNodes == {"email_simulation", "result_output", "web_update"}

\* C11: whenever a terminal stage has executed or is about to (send_status is
\* the marker, or the run is past the router on the send branch) the
\* evaluation in the state is 100/APPROVE; a completed sub-perfect evaluation
\* is followed by revision and revision by email_generation, never by a
\* terminal stage.
C11_SendOnlyAfterPerfect ==
    [][\A r \in RUNS :
        /\ (\/ state'[r].send_status = SentMarker
            \/ pc'[r] \in TerminalNodes \cup {"END"}
            \/ Range(trace'[r]) \cap TerminalNodes # {})
           => /\ "overall_score" \in DOMAIN state'[r].accuracy_score
              /\ state'[r].accuracy_score.overall_score = 100
              /\ "recommendation" \in DOMAIN state'[r].accuracy_score
              /\ state'[r].accuracy_score.recommendation = "APPROVE"
        /\ (/\ pc[r] = "accuracy_check"
            /\ Len(evalHistory'[r]) > Len(evalHistory[r])
            /\ ~LastOf(evalHistory'[r]))
           => pc'[r] = "revision"
        /\ (pc[r] = "accuracy_check" /\ Stepped(r)) =>
              (pc'[r] \in TerminalNodes => LastOf(evalHistory'[r]))
        /\ (pc[r] = "revision" /\ Stepped(r)) => pc'[r] = "email_generation"]_vars

C11_Witness ==
    /\ pc[1] = "END"
    /\ state[1].send_status = SentMarker
    /\ Count(trace[1], "revision") >= 1
    /\ state[1].accuracy_score.overall_score = 100

\* C12: every execution of revision leaves every field of the run's state
\* unchanged and hands control to email_generation, whatever the feedback,
\* a missing feedback key included.
C12_RevisionNoOp ==
    [][\A r \in RUNS :
        (pc[r] = "revision" /\ Stepped(r)) =>
            /\ state'[r] = state[r]
            /\ pc'[r] = "email_generation"
            /\ file' = file]_vars

C12_Witness ==
    /\ pc[1] = "email_generation"
    /\ LastOf(trace[1]) = "revision"
    /\ "feedback" \notin DOMAIN state[1].accuracy_score
    /\ state[1].generated_email # ""

SixKeys ==
    {"vehicle_model", "software_version", "control_board",
     "manager_name", "distributor_name", "test_result"}

Parsed(r) == pc[r] \notin {"idle", "input_processing"}

\* C13: input_processing yields the same record with exactly the six keys for
\* every user_input, executes exactly once per run, and no later stage changes
\* parsed_data, over any number of loop iterations.
C13_ParsedFieldsConstant ==
    [][/\ \A r \in RUNS :
            /\ Parsed(r)' =>
                  /\ Keys(state'[r].parsed_data) = SixKeys
                  /\ Count(trace'[r], "input_processing") = 1
                  /\ trace'[r][1] = "input_processing"
            /\ Parsed(r) => state'[r].parsed_data = state[r].parsed_data
       /\ \A r, q \in RUNS :
            (Parsed(r)' /\ Parsed(q)') =>
                state'[r].parsed_data = state'[q].parsed_data]_vars

C13_Witness ==
    /\ Parsed(1)
    /\ Parsed(2)
    /\ state[1].user_input # state[2].user_input
    /\ state[1].parsed_data = state[2].parsed_data
    /\ Count(trace[1], "revision") >= 2

\* some execution of email_generation by run r returned
GenerationCompleted(r) ==
    \E i \in DOMAIN trace[r] :
        /\ trace[r][i] = "email_generation"
        /\ i < Len(trace[r]) \/ pc[r] # "aborted"

\* C14: a run starts with user_input the caller's value and every other field
\* empty; accuracy_score stays empty until accuracy_check has run (and, in a
\* run that goes on, has completed), generated_email until email_generation
\* has completed, send_status until email_simulation has executed.
C14_FieldLifecycle ==
    \A r \in RUNS :
        /\ pc[r] # "idle" => state[r].user_input \in Inputs
        /\ pc[r] = "input_processing" =>
              /\ state[r].parsed_data = EmptyDict
              /\ state[r].generated_email = ""
              /\ state[r].accuracy_score = EmptyDict
              /\ state[r].send_status = ""
              /\ state[r].result_summary = ""
              /\ state[r].processing_time = ""
              /\ state[r].current_date = ""
              /\ DOMAIN state[r] =
                    {"user_input", "parsed_data", "generated_email",
                     "accuracy_score", "send_status", "result_summary",
                     "processing_time", "current_date"}
        /\ "accuracy_check" \notin Range(trace[r]) =>
              state[r].accuracy_score = EmptyDict
        /\ (pc[r] # "aborted" /\ Len(evalHistory[r]) = 0) =>
              state[r].accuracy_score = EmptyDict
        /\ ~GenerationCompleted(r) => state[r].generated_email = ""
        /\ "email_simulation" \notin Range(trace[r]) => state[r].send_status = ""

C14_Witness ==
    /\ pc[1] = "accuracy_check"
    /\ state[1].generated_email # ""
    /\ state[1].accuracy_score = EmptyDict
    /\ state[1].send_status = ""
    /\ state[1].processing_time # ""

\* C15: email_simulation, result_output and web_update each execute at most
\* once in a run, the summary exists only once result_output has run, and no
\* email_generation, accuracy_check or revision executes after
\* email_simulation.
C15_TerminalStagesOnce ==
    \A r \in RUNS :
        /\ \A n \in TerminalNodes : Count(trace[r], n) <= 1
        /\ state[r].result_summary # "" => Count(trace[r], "result_output") = 1
        /\ lastWriter = r => Count(trace[r], "web_update") = 1
        /\ \A i, j \in DOMAIN trace[r] :
              (i < j /\ trace[r][i] = "email_simulation") =>
                  trace[r][j] \in {"result_output", "web_update"}

C15_Witness ==
    /\ pc[1] = "END"
    /\ Count(trace[1], "accuracy_check") >= 2
    /\ Count(trace[1], "web_update") = 1
    /\ state[1].result_summary # ""
    /\ file # <<>>

\* position of the last execution of node in tr, 0 when there is none
LastIndex(tr, node) ==
    LET idx == {i \in DOMAIN tr : tr[i] = node}
    IN  IF idx = {} THEN 0 ELSE CHOOSE i \in idx : \A j \in idx : j <= i

\* the latest evaluation of run r is later than its latest draft
EvaluationFresh(r) ==
    /\ LastIndex(trace[r], "email_generation") > 0
    /\ LastIndex(trace[r], "accuracy_check") > LastIndex(trace[r], "email_generation")
    /\ Count(trace[r], "accuracy_check") = Count(trace[r], "email_generation")

\* C16: email_generation overwrites the draft and is followed by
\* accuracy_check; only email_generation writes the draft and only
\* accuracy_check writes the evaluation; so whenever the router decides, and at
\* every terminal stage, the evaluation is the one made of the draft in the
\* state, and the draft that is published is the one that scored 100/APPROVE.
C16_EvaluationNeverStale ==
    [][\A r \in RUNS :
        /\ (pc[r] = "email_generation" /\ Stepped(r) /\ response'[r].ok) =>
              /\ state'[r].generated_email = response'[r].content.text
              /\ pc'[r] = "accuracy_check"
        /\ pc[r] # "email_generation" =>
              state'[r].generated_email = state[r].generated_email
        /\ pc[r] # "accuracy_check" =>
              /\ state'[r].accuracy_score = state[r].accuracy_score
              /\ decision'[r] = decision[r]
        /\ (\/ Len(evalHistory'[r]) > Len(evalHistory[r])
            \/ pc'[r] \in {"revision", "END"} \cup TerminalNodes) =>
              EvaluationFresh(r)'
        /\ pc'[r] \in TerminalNodes \cup {"END"} =>
              /\ Len(evalHistory'[r]) = Count(trace'[r], "email_generation")
              /\ LastOf(evalHistory'[r])
              /\ decision'[r] = "send"]_vars

C16_Witness ==
    /\ pc[1] = "END"
    /\ Count(trace[1], "email_generation") = 2
    /\ response[1].ok
    /\ state[1].accuracy_score = response[1].content
    /\ state[1].generated_email = "draft B"

\* C17: once some evaluation of a run is 100/APPROVE the run reaches the end of
\* the graph, having executed email_simulation, result_output and web_update
\* last, and the number of revisions is the number of non-perfect evaluations
\* before the first perfect one.
C17_ConditionalTermination ==
    /\ [](\A r \in RUNS :
            ~AllNonPerfect(r) =>
                LET n == Len(evalHistory[r])
                IN  /\ evalHistory[r][n]
                    /\ \A i \in 1..(n - 1) : ~evalHistory[r][i]
                    /\ Count(trace[r], "revision") = n - 1
                    /\ pc[r] # "aborted"
                    /\ pc[r] = "END" =>
                          SubSeq(trace[r], Len(trace[r]) - 2, Len(trace[r])) =
                              <<"email_simulation", "result_output", "web_update">>)
    /\ [](pc[1] = "END" => ~AllNonPerfect(1))
    /\ (~AllNonPerfect(1)) ~> (pc[1] = "END")

C17_Witness ==
    /\ pc[1] = "END"
    /\ evalHistory[1] = <<FALSE, FALSE, TRUE>>
    /\ Count(trace[1], "revision") = 2

Nodes ==
    {"input_processing", "email_generation", "accuracy_check", "revision",
     "email_simulation", "result_output", "web_update"}

CountBalance(r) ==
    /\ Count(trace[r], "accuracy_check") \in
          {Count(trace[r], "email_generation"),
           Count(trace[r], "email_generation") - 1}
    /\ Count(trace[r], "revision") <= Count(trace[r], "accuracy_check")
    /\ pc[r] = "END" =>
          /\ Count(trace[r], "email_generation") = Count(trace[r], "accuracy_check")
          /\ Count(trace[r], "accuracy_check") = Count(trace[r], "revision") + 1

\* C18 as stated: the counts balance, and email_generation and accuracy_check
\* are the only stages that execute more than once.
C18_Original ==
    \A r \in RUNS :
        /\ CountBalance(r)
        /\ \A n \in Nodes \ {"email_generation", "accuracy_check"} :
              Count(trace[r], n) <= 1

\* C18: at every point the number of evaluations is the number of generations
\* or one less, revisions are at most evaluations, at completion generations =
\* evaluations = revisions + 1; email_generation, accuracy_check and revision
\* are the only stages that execute more than once.
C18_StageCountBalance ==
    \A r \in RUNS :
        /\ CountBalance(r)
        /\ \A n \in Nodes \ {"email_generation", "accuracy_check", "revision"} :
              Count(trace[r], n) <= 1

C18_Witness ==
    /\ pc[1] = "END"
    /\ Count(trace[1], "revision") = 2
    /\ Count(trace[1], "accuracy_check") = 3
    /\ Count(trace[1], "email_generation") = 3

====
